---- MODULE Spec2Model ----
(***************************************************************************)
(* Model of the astrometrics quantity library: Mass, SpatialUnit and       *)
(* Temperature values (a variant tag plus a MetricsInternalType            *)
(* magnitude), their conversions, unification, comparison and arithmetic.  *)
(*                                                                         *)
(* MetricsInternalType is a binary floating-point type in the source.  It  *)
(* is modelled as a decimal floating-point number with a six-digit         *)
(* mantissa, rounded after every operation, with NaN and the two           *)
(* infinities.  Signed zero and NaN payloads are not modelled.             *)
(***************************************************************************)
EXTENDS Integers, Sequences, FiniteSets, TLC

(***************************************************************************)
(* MetricsInternalType: mant * 10^exp, with mant = 0 or                    *)
(* MantLo <= |mant| < MantHi.                                              *)
(***************************************************************************)
MantHi == 10^6
MantLo == 10^5

NaN == [kind |-> "nan", mant |-> 0, exp |-> 0]
PosInf == [kind |-> "inf", mant |-> 1, exp |-> 0]
NegInf == [kind |-> "inf", mant |-> -1, exp |-> 0]
Zero == [kind |-> "num", mant |-> 0, exp |-> 0]

AbsI(i) == IF i < 0 THEN -i ELSE i
SgnI(i) == IF i < 0 THEN -1 ELSE IF i > 0 THEN 1 ELSE 0

RECURSIVE Norm(_, _)
\* Rounds mant * 10^exp to the representable number nearest to it.
Norm(mant, exp) ==
    IF mant = 0 THEN Zero
    ELSE IF AbsI(mant) >= MantHi
         THEN LET q == AbsI(mant) \div 10
                  r == AbsI(mant) % 10
              IN Norm(SgnI(mant) * (IF r >= 5 THEN q + 1 ELSE q), exp + 1)
    ELSE IF AbsI(mant) < MantLo THEN Norm(mant * 10, exp - 1)
    ELSE [kind |-> "num", mant |-> mant, exp |-> exp]

\* An integer widened to MetricsInternalType (`n as MetricsInternalType`).
FromInt(n) == Norm(n, 0)
\* The literal mant * 10^exp.
Lit(mant, exp) == Norm(mant, exp)

IsNaN(x) == x.kind = "nan"
IsInf(x) == x.kind = "inf"
IsNum(x) == x.kind = "num"
SgnF(x) == IF IsNaN(x) THEN 0 ELSE SgnI(x.mant)

NegF(x) == IF IsNaN(x) THEN NaN ELSE [x EXCEPT !.mant = -x.mant]
AbsF(x) == IF IsNaN(x) THEN NaN ELSE [x EXCEPT !.mant = AbsI(x.mant)]

\* x * y
MulF(x, y) ==
    IF IsNaN(x) \/ IsNaN(y) THEN NaN
    ELSE IF IsInf(x) \/ IsInf(y)
         THEN IF SgnF(x) * SgnF(y) = 0 THEN NaN
              ELSE IF SgnF(x) * SgnF(y) > 0 THEN PosInf ELSE NegInf
    ELSE IF x.mant = 0 \/ y.mant = 0 THEN Zero
    ELSE LET a == AbsI(x.mant)
             b == AbsI(y.mant)
             \* floor(a * b / 10^4), computed without leaving 32 bits
             t == (((a \div 1000) * b) + (((a % 1000) * b) \div 1000)) \div 10
         IN Norm(SgnF(x) * SgnF(y) * t, x.exp + y.exp + 4)

RECURSIVE DivDigits(_, _, _, _)
\* Long division: n more digits of r / b appended to acc.
DivDigits(r, b, n, acc) ==
    IF n = 0 THEN acc
    ELSE DivDigits((r * 10) % b, b, n - 1, acc * 10 + ((r * 10) \div b))

\* x / y
DivF(x, y) ==
    IF IsNaN(x) \/ IsNaN(y) THEN NaN
    ELSE IF IsInf(x)
         THEN IF IsInf(y) THEN NaN
              ELSE IF SgnF(x) * (IF SgnF(y) < 0 THEN -1 ELSE 1) > 0
                   THEN PosInf ELSE NegInf
    ELSE IF IsInf(y) THEN Zero
    ELSE IF y.mant = 0
         THEN IF x.mant = 0 THEN NaN
              ELSE IF x.mant > 0 THEN PosInf ELSE NegInf
    ELSE IF x.mant = 0 THEN Zero
    ELSE LET a == AbsI(x.mant)
             b == AbsI(y.mant)
             \* floor(a * 10^7 / b)
             t == DivDigits(a % b, b, 7, a \div b)
         IN Norm(SgnF(x) * SgnF(y) * t, x.exp - y.exp - 7)

RECURSIVE Shr(_, _)
\* i / 10^n, rounded half away from zero at each digit.
Shr(i, n) ==
    IF n = 0 \/ i = 0 THEN i
    ELSE LET q == AbsI(i) \div 10
             r == AbsI(i) % 10
         IN Shr(SgnI(i) * (IF r >= 5 THEN q + 1 ELSE q), n - 1)

\* x + y
AddF(x, y) ==
    IF IsNaN(x) \/ IsNaN(y) THEN NaN
    ELSE IF IsInf(x)
         THEN IF IsInf(y) /\ x.mant # y.mant THEN NaN ELSE x
    ELSE IF IsInf(y) THEN y
    ELSE IF x.mant = 0 THEN y
    ELSE IF y.mant = 0 THEN x
    ELSE LET hi == IF x.exp >= y.exp THEN x ELSE y
             lo == IF x.exp >= y.exp THEN y ELSE x
             d == hi.exp - lo.exp
             up == IF d < 3 THEN d ELSE 3
         IN IF d > 9 THEN hi
            ELSE Norm(hi.mant * 10^up + Shr(lo.mant, d - up), hi.exp - up)

\* x - y
SubF(x, y) == AddF(x, NegF(y))

\* f64::total_cmp(x, y): -inf < numbers < +inf < NaN.
total_cmp(x, y) ==
    LET key(z) == IF IsNaN(z) THEN 3 ELSE IF IsInf(z) THEN 2 * z.mant ELSE SgnI(z.mant)
    IN IF key(x) < key(y) THEN "Less"
       ELSE IF key(x) > key(y) THEN "Greater"
       ELSE IF ~IsNum(x) \/ x.mant = 0 THEN "Equal"
       ELSE LET s == SgnI(x.mant)
            IN IF x.exp # y.exp
               THEN (IF (x.exp < y.exp) = (s > 0) THEN "Less" ELSE "Greater")
               ELSE IF x.mant < y.mant THEN "Less"
               ELSE IF x.mant > y.mant THEN "Greater"
               ELSE "Equal"

\* x < y, x == y and x > y on two numbers of MetricsInternalType: each is false when
\* an operand is NaN.
lt(x, y) == ~IsNaN(x) /\ ~IsNaN(y) /\ total_cmp(x, y) = "Less"
eqF(x, y) == ~IsNaN(x) /\ ~IsNaN(y) /\ total_cmp(x, y) = "Equal"
gt(x, y) == lt(y, x)

\* f64::max(x, y): a NaN operand is ignored.
MaxF(x, y) ==
    IF IsNaN(x) THEN y
    ELSE IF IsNaN(y) THEN x
    ELSE IF total_cmp(x, y) = "Less" THEN y ELSE x

(***************************************************************************)
(* Quantities.  A value is a variant tag with its magnitude; the           *)
(* Temperature sentinels D, N and X carry no magnitude.                    *)
(***************************************************************************)
NoMag == [kind |-> "none", mant |-> 0, exp |-> 0]
Q(tag, v) == [tag |-> tag, v |-> v]

\* enum Mass
MassTags == {"G", "Kg", "ME", "MJ", "MO"}
\* enum SpatialUnit
SpatialTags == {"M", "Au", "Ly", "RE", "RO", "Pc"}
\* enum Temperature
TemperatureTags == {"D", "N", "X", "K", "C"}
Sentinels == {"D", "N", "X"}

IsMass(x) == x.tag \in MassTags
IsSpatial(x) == x.tag \in SpatialTags
IsTemperature(x) == x.tag \in TemperatureTags

\* Generic ratio calc.
ratio(num, denom) == DivF(num, denom)

(***************************************************************************)
(* Mass                                                                    *)
(***************************************************************************)
SOL_KG == Lit(198847, 25)
JUP_KG == Lit(189813, 22)
EARTH_KG == Lit(59722, 20)

\* Grams to kg.
g_to_kg(gr) == DivF(gr, FromInt(1000))
\* kg to grams.
kg_to_g(kgs) == MulF(kgs, FromInt(1000))

Mass_raw(x) == x.v
Mass_set(x, to) == [x EXCEPT !.v = to]

Mass_mo(x) ==
    CASE x.tag = "MO" -> x
      [] x.tag = "MJ" -> Q("MO", MulF(x.v, ratio(JUP_KG, SOL_KG)))
      [] x.tag = "ME" -> Q("MO", MulF(x.v, ratio(EARTH_KG, SOL_KG)))
      [] x.tag = "Kg" -> Q("MO", MulF(x.v, SOL_KG))
      [] x.tag = "G" -> Q("MO", MulF(x.v, kg_to_g(SOL_KG)))

Mass_mj(x) ==
    CASE x.tag = "MO" -> Q("MJ", MulF(x.v, ratio(SOL_KG, JUP_KG)))
      [] x.tag = "MJ" -> x
      [] x.tag = "ME" -> Q("MJ", MulF(x.v, ratio(EARTH_KG, JUP_KG)))
      [] x.tag = "Kg" -> Q("MJ", MulF(x.v, JUP_KG))
      [] x.tag = "G" -> Q("MJ", DivF(x.v, kg_to_g(JUP_KG)))

Mass_me(x) ==
    CASE x.tag = "MO" -> Q("ME", MulF(x.v, ratio(SOL_KG, EARTH_KG)))
      [] x.tag = "MJ" -> Q("ME", MulF(x.v, ratio(JUP_KG, EARTH_KG)))
      [] x.tag = "ME" -> x
      [] x.tag = "Kg" -> Q("ME", DivF(x.v, EARTH_KG))
      [] x.tag = "G" -> Q("ME", DivF(x.v, kg_to_g(EARTH_KG)))

Mass_kg(x) ==
    CASE x.tag = "MO" -> Q("Kg", MulF(x.v, SOL_KG))
      [] x.tag = "MJ" -> Q("Kg", MulF(x.v, JUP_KG))
      [] x.tag = "ME" -> Q("Kg", MulF(x.v, EARTH_KG))
      [] x.tag = "Kg" -> x
      [] x.tag = "G" -> Q("Kg", g_to_kg(x.v))

Mass_g(x) ==
    CASE x.tag = "MO" -> Q("G", MulF(x.v, kg_to_g(SOL_KG)))
      [] x.tag = "MJ" -> Q("G", MulF(x.v, kg_to_g(JUP_KG)))
      [] x.tag = "ME" -> Q("G", MulF(x.v, kg_to_g(EARTH_KG)))
      [] x.tag = "Kg" -> Q("G", kg_to_g(x.v))
      [] x.tag = "G" -> x

\* The AsMass method that converts into the variant `tag`
\* (the `match self { Self::MO(_) => other.mo(), ... }` of unify).
Mass_as(x, tag) ==
    CASE tag = "MO" -> Mass_mo(x)
      [] tag = "MJ" -> Mass_mj(x)
      [] tag = "ME" -> Mass_me(x)
      [] tag = "Kg" -> Mass_kg(x)
      [] tag = "G" -> Mass_g(x)

Mass_rank(x) ==
    CASE x.tag = "MO" -> 5
      [] x.tag = "MJ" -> 4
      [] x.tag = "ME" -> 3
      [] x.tag = "Kg" -> 2
      [] x.tag = "G" -> 1

\* Mass_unify with the rank tests exchanged: the lower-ranked unit wins.
Mass_unify_to_lower(self, other) ==
    IF Mass_rank(self) < Mass_rank(other) THEN <<self, Mass_as(other, self.tag)>>
    ELSE IF Mass_rank(self) > Mass_rank(other) THEN <<Mass_as(self, other.tag), other>>
    ELSE <<self, other>>

\* Elevates the lower-ranked mass of the two into the higher-ranked unit.
Mass_unify(self, other) ==
    IF Mass_rank(self) > Mass_rank(other) THEN <<self, Mass_as(other, self.tag)>>
    ELSE IF Mass_rank(self) < Mass_rank(other) THEN <<Mass_as(self, other.tag), other>>
    ELSE <<self, other>>

\* Mass_partial_cmp on the magnitudes as given, without unify.
Mass_partial_cmp_ununified(self, other) ==
    total_cmp(Mass_raw(self), Mass_raw(other))

Mass_partial_cmp(self, other) ==
    LET u == Mass_unify(self, other)
    IN total_cmp(Mass_raw(u[1]), Mass_raw(u[2]))

Mass_eq(self, other) == Mass_partial_cmp(self, other) = "Equal"

(***************************************************************************)
(* SpatialUnit                                                             *)
(***************************************************************************)
\* 149_597_870_700.0
AU_METERS == Lit(1495978707, 2)
LY_METERS == Lit(94607, 11)
\* 3.085677581e16
PARSEC_METERS == Lit(308567758, 8)
R_SUN_METERS == Lit(6957, 5)
R_EARTH_METERS == Lit(63781, 2)

SpatialUnit_m(x) ==
    CASE x.tag = "M" -> x
      [] x.tag = "RE" -> Q("M", MulF(x.v, R_EARTH_METERS))
      [] x.tag = "RO" -> Q("M", MulF(x.v, R_SUN_METERS))
      [] x.tag = "Au" -> Q("M", MulF(x.v, AU_METERS))
      [] x.tag = "Ly" -> Q("M", MulF(x.v, LY_METERS))
      [] x.tag = "Pc" -> Q("M", MulF(x.v, PARSEC_METERS))

SpatialUnit_re(x) ==
    CASE x.tag = "M" -> Q("RE", ratio(x.v, R_EARTH_METERS))
      [] x.tag = "RE" -> x
      [] x.tag = "RO" -> Q("RE", MulF(x.v, ratio(R_SUN_METERS, R_EARTH_METERS)))
      [] x.tag = "Au" -> Q("RE", MulF(x.v, ratio(AU_METERS, R_EARTH_METERS)))
      [] x.tag = "Ly" -> Q("RE", MulF(x.v, ratio(LY_METERS, R_EARTH_METERS)))
      [] x.tag = "Pc" -> Q("RE", MulF(x.v, ratio(PARSEC_METERS, R_EARTH_METERS)))

SpatialUnit_ro(x) ==
    CASE x.tag = "M" -> Q("RO", ratio(x.v, R_SUN_METERS))
      [] x.tag = "RE" -> Q("RO", MulF(x.v, ratio(R_EARTH_METERS, R_SUN_METERS)))
      [] x.tag = "RO" -> x
      [] x.tag = "Au" -> Q("RO", MulF(x.v, ratio(AU_METERS, R_SUN_METERS)))
      [] x.tag = "Ly" -> Q("RO", MulF(x.v, ratio(LY_METERS, R_SUN_METERS)))
      [] x.tag = "Pc" -> Q("RO", MulF(x.v, ratio(PARSEC_METERS, R_SUN_METERS)))

SpatialUnit_au(x) ==
    CASE x.tag = "M" -> Q("Au", ratio(x.v, AU_METERS))
      [] x.tag = "RE" -> Q("Au", MulF(x.v, ratio(R_EARTH_METERS, AU_METERS)))
      [] x.tag = "RO" -> Q("Au", MulF(x.v, ratio(R_SUN_METERS, AU_METERS)))
      [] x.tag = "Au" -> x
      [] x.tag = "Ly" -> Q("Au", MulF(x.v, ratio(LY_METERS, AU_METERS)))
      [] x.tag = "Pc" -> Q("Au", MulF(x.v, ratio(PARSEC_METERS, AU_METERS)))

SpatialUnit_ly(x) ==
    CASE x.tag = "M" -> Q("Ly", ratio(x.v, LY_METERS))
      [] x.tag = "RE" -> Q("Ly", MulF(x.v, ratio(R_EARTH_METERS, LY_METERS)))
      [] x.tag = "RO" -> Q("Ly", MulF(x.v, ratio(R_SUN_METERS, LY_METERS)))
      [] x.tag = "Au" -> Q("Ly", MulF(x.v, ratio(AU_METERS, LY_METERS)))
      [] x.tag = "Ly" -> x
      [] x.tag = "Pc" -> Q("Ly", MulF(x.v, ratio(PARSEC_METERS, LY_METERS)))

SpatialUnit_pc(x) ==
    CASE x.tag = "M" -> Q("Pc", DivF(x.v, PARSEC_METERS))
      [] x.tag = "RE" -> Q("Pc", MulF(x.v, ratio(R_EARTH_METERS, PARSEC_METERS)))
      [] x.tag = "RO" -> Q("Pc", MulF(x.v, ratio(R_SUN_METERS, PARSEC_METERS)))
      [] x.tag = "Au" -> Q("Pc", MulF(x.v, ratio(AU_METERS, PARSEC_METERS)))
      [] x.tag = "Ly" -> Q("Pc", MulF(x.v, ratio(LY_METERS, PARSEC_METERS)))
      [] x.tag = "Pc" -> x

SpatialUnit_raw(x) == x.v
SpatialUnit_set(x, value) == [x EXCEPT !.v = value]

\* Get `self` as the `other` variant.
SpatialUnit_cnv_into(self, other) ==
    CASE other.tag = "M" -> SpatialUnit_m(self)
      [] other.tag = "RE" -> SpatialUnit_re(self)
      [] other.tag = "RO" -> SpatialUnit_ro(self)
      [] other.tag = "Au" -> SpatialUnit_au(self)
      [] other.tag = "Ly" -> SpatialUnit_ly(self)
      [] other.tag = "Pc" -> SpatialUnit_pc(self)

SpatialUnit_rank(x) ==
    CASE x.tag = "M" -> 1
      [] x.tag = "RE" -> 2
      [] x.tag = "RO" -> 3
      [] x.tag = "Au" -> 4
      [] x.tag = "Ly" -> 5
      [] x.tag = "Pc" -> 6

\* SpatialUnit_unify that leaves a lower-ranked left operand as it is.
SpatialUnit_unify_right_only(self, other) ==
    IF SpatialUnit_rank(self) > SpatialUnit_rank(other)
    THEN <<self, SpatialUnit_cnv_into(other, self)>>
    ELSE <<self, other>>

SpatialUnit_unify(self, other) ==
    IF SpatialUnit_rank(self) > SpatialUnit_rank(other)
    THEN <<self, SpatialUnit_cnv_into(other, self)>>
    ELSE IF SpatialUnit_rank(self) < SpatialUnit_rank(other)
    THEN <<SpatialUnit_cnv_into(self, other), other>>
    ELSE <<self, other>>

\* "unreachable" stands for the panic of the unreachable!() arm.
SpatialUnit_partial_cmp(self, other) ==
    LET u == SpatialUnit_unify(self, other)
    IN IF u[1].tag = u[2].tag THEN total_cmp(u[1].v, u[2].v) ELSE "unreachable"

SpatialUnit_eq(self, other) == SpatialUnit_partial_cmp(self, other) = "Equal"

\* start <= item of PartialOrd, on SpatialUnit.
SpatialUnit_le(self, other) == SpatialUnit_partial_cmp(self, other) \in {"Less", "Equal"}

\* A RangeInclusive<SpatialUnit>, start..=end.
Range(start, end) == [start |-> start, end |-> end]

\* RangeInclusive::contains that excludes the end of the range.
RangeInclusive_contains_half_open(r, item) ==
    /\ SpatialUnit_le(r.start, item)
    /\ SpatialUnit_partial_cmp(item, r.end) = "Less"

\* RangeInclusive::contains: start <= item && item <= end.
RangeInclusive_contains(r, item) ==
    /\ SpatialUnit_le(r.start, item)
    /\ SpatialUnit_le(item, r.end)

\* Megastructure::GR.
GR(visible_disk, arms, halo) ==
    [visible_disk |-> visible_disk, arms |-> arms, halo |-> halo]

\* "None" is Option::None; the other results are Some(SpatialContained).
Megastructure_contains(self, s) ==
    IF RangeInclusive_contains(self.visible_disk, s) THEN "VisibleDisk"
    ELSE IF RangeInclusive_contains(self.arms, s) THEN "Arms"
    ELSE IF RangeInclusive_contains(self.halo, s) THEN "Halo"
    ELSE "None"

(***************************************************************************)
(* Temperature                                                             *)
(***************************************************************************)
\* K/C conversion delta, 273.15.
K_C_DELTA == Lit(27315, -2)
\* Absolute zero, in Kelvin.
ABS_ZERO == Q("K", Zero)
K_NEUTRON == Q("K", Lit(1, 6))
K_WDWARF == Q("K", Lit(1, 5))
D == Q("D", NoMag)
N == Q("N", NoMag)
X == Q("X", NoMag)

\* Get the raw underlying value; the black hole temperature is NaN.
Temperature_raw(x) ==
    CASE x.tag \in {"C", "K"} -> x.v
      [] x.tag = "D" -> K_WDWARF.v
      [] x.tag = "N" -> K_NEUTRON.v
      [] x.tag = "X" -> NaN

\* Temperature_set that stores into every variant.
Temperature_set_any(x, to) == [x EXCEPT !.v = to]

\* Set internal value as `to`; stellar remnants stay as they are.
Temperature_set(x, to) ==
    IF x.tag \in {"C", "K"} THEN [x EXCEPT !.v = to] ELSE x

\* `self` as Kelvin, clamped to absolute zero.
Temperature_k(x) ==
    CASE x.tag = "K" -> Q("K", MaxF(x.v, Zero))
      [] x.tag = "C" -> Q("K", MaxF(SubF(x.v, K_C_DELTA), Zero))
      [] x.tag = "N" -> K_NEUTRON
      [] x.tag = "D" -> K_WDWARF
      [] x.tag = "X" -> X

\* Temperature_c with the Celsius clamp at +273.15 instead of -273.15.
Temperature_c_clamp_sign(x) ==
    CASE x.tag = "C" -> Q("C", MaxF(x.v, K_C_DELTA))
      [] x.tag = "K" -> Q("C", AddF(MaxF(x.v, Zero), K_C_DELTA))
      [] x.tag = "N" -> Temperature_set(K_NEUTRON, SubF(Temperature_raw(K_NEUTRON), K_C_DELTA))
      [] x.tag = "D" -> Temperature_set(K_NEUTRON, SubF(Temperature_raw(K_NEUTRON), K_C_DELTA))
      [] x.tag = "X" -> X

\* `self` as Celsius.  `K_NEUTRON - K_C_DELTA` is Sub<f64> for Temperature:
\* set(raw() - rhs) on a copy of K_NEUTRON.
Temperature_c(x) ==
    CASE x.tag = "C" -> Q("C", MaxF(x.v, NegF(K_C_DELTA)))
      [] x.tag = "K" -> Q("C", AddF(MaxF(x.v, Zero), K_C_DELTA))
      [] x.tag = "N" -> Temperature_set(K_NEUTRON, SubF(Temperature_raw(K_NEUTRON), K_C_DELTA))
      [] x.tag = "D" -> Temperature_set(K_NEUTRON, SubF(Temperature_raw(K_NEUTRON), K_C_DELTA))
      [] x.tag = "X" -> X

\* Get `self` as the `other` variant.
Temperature_cnv_into(self, other) ==
    CASE other.tag = "X" -> X
      [] other.tag = "N" -> (IF self.tag = "X" THEN X ELSE N)
      [] other.tag = "D" -> (IF self.tag = "X" THEN X ELSE IF self.tag = "N" THEN N ELSE D)
      [] other.tag = "C" -> Temperature_c(self)
      [] other.tag = "K" -> Temperature_k(self)

\* The last four arms of PartialEq::eq, on magnitude-carrying operands.
Temperature_eq_mag(self, other) ==
    IF self.tag = other.tag THEN total_cmp(self.v, other.v) = "Equal"
    ELSE IF self.tag = "K" THEN total_cmp(self.v, SubF(other.v, K_C_DELTA)) = "Equal"
    ELSE total_cmp(other.v, SubF(self.v, K_C_DELTA)) = "Equal"

\* Temperature_eq whose WhiteDwarf arms compare with K_NEUTRON.
Temperature_eq_d_as_n(self, other) ==
    IF self.tag = "X" \/ other.tag = "X" THEN FALSE
    ELSE IF self.tag = "N" THEN Temperature_eq_mag(Temperature_k(other), K_NEUTRON)
    ELSE IF other.tag = "N" THEN Temperature_eq_mag(Temperature_k(self), K_NEUTRON)
    ELSE IF self.tag = "D" THEN Temperature_eq_mag(Temperature_k(other), K_NEUTRON)
    ELSE IF other.tag = "D" THEN Temperature_eq_mag(Temperature_k(self), K_NEUTRON)
    ELSE Temperature_eq_mag(self, other)

Temperature_eq(self, other) ==
    IF self.tag = "X" \/ other.tag = "X" THEN FALSE
    ELSE IF self.tag = "N" THEN Temperature_eq_mag(Temperature_k(other), K_NEUTRON)
    ELSE IF other.tag = "N" THEN Temperature_eq_mag(Temperature_k(self), K_NEUTRON)
    ELSE IF self.tag = "D" THEN Temperature_eq_mag(Temperature_k(other), K_WDWARF)
    ELSE IF other.tag = "D" THEN Temperature_eq_mag(Temperature_k(self), K_WDWARF)
    ELSE Temperature_eq_mag(self, other)

\* Variant: the provided PartialEq::ne, the negation of eq.
Temperature_ne_provided(self, other) == ~Temperature_eq(self, other)

Temperature_ne(self, other) ==
    IF self.tag = "X" \/ other.tag = "X" THEN FALSE
    ELSE ~Temperature_eq(self, other)

\* Temperature_partial_cmp whose Celsius-against-Kelvin arms add K_C_DELTA.
Temperature_partial_cmp_offset_added(self, other) ==
    IF self.tag = "X" \/ other.tag = "X" THEN "None"
    ELSE IF self.tag = other.tag /\ self.tag \in {"N", "D"} THEN "Equal"
    ELSE IF self.tag = "N" /\ other.tag = "D" THEN "Greater"
    ELSE IF self.tag = "D" /\ other.tag = "N" THEN "Less"
    ELSE IF self.tag = "N"
         THEN total_cmp(Temperature_raw(Temperature_k(other)), Temperature_raw(K_NEUTRON))
    ELSE IF other.tag = "N"
         THEN total_cmp(Temperature_raw(Temperature_k(self)), Temperature_raw(K_NEUTRON))
    ELSE IF self.tag = "D"
         THEN total_cmp(Temperature_raw(Temperature_k(other)), Temperature_raw(K_WDWARF))
    ELSE IF other.tag = "D"
         THEN total_cmp(Temperature_raw(Temperature_k(self)), Temperature_raw(K_WDWARF))
    ELSE IF self.tag = other.tag THEN total_cmp(self.v, other.v)
    ELSE IF self.tag = "C" THEN total_cmp(AddF(self.v, K_C_DELTA), other.v)
    ELSE total_cmp(self.v, AddF(other.v, K_C_DELTA))

\* "None" is Option::None; the other results are Some(ordering).
Temperature_partial_cmp(self, other) ==
    IF self.tag = "X" \/ other.tag = "X" THEN "None"
    ELSE IF self.tag = other.tag /\ self.tag \in {"N", "D"} THEN "Equal"
    ELSE IF self.tag = "N" /\ other.tag = "D" THEN "Greater"
    ELSE IF self.tag = "D" /\ other.tag = "N" THEN "Less"
    ELSE IF self.tag = "N"
         THEN total_cmp(Temperature_raw(Temperature_k(other)), Temperature_raw(K_NEUTRON))
    ELSE IF other.tag = "N"
         THEN total_cmp(Temperature_raw(Temperature_k(self)), Temperature_raw(K_NEUTRON))
    ELSE IF self.tag = "D"
         THEN total_cmp(Temperature_raw(Temperature_k(other)), Temperature_raw(K_WDWARF))
    ELSE IF other.tag = "D"
         THEN total_cmp(Temperature_raw(Temperature_k(self)), Temperature_raw(K_WDWARF))
    ELSE IF self.tag = other.tag THEN total_cmp(self.v, other.v)
    ELSE IF self.tag = "C" THEN total_cmp(SubF(self.v, K_C_DELTA), other.v)
    ELSE total_cmp(self.v, SubF(other.v, K_C_DELTA))

(***************************************************************************)
(* Arithmetic.  defo! generates the operators of SpatialUnit and           *)
(* Temperature from their DefoAble implementation; Mass has its own.       *)
(***************************************************************************)
Fns == {"add", "sub", "mul", "div"}

\* The scalar operator `$fn` of MetricsInternalType.
ApplyFn(fn, x, y) ==
    CASE fn = "add" -> AddF(x, y)
      [] fn = "sub" -> SubF(x, y)
      [] fn = "mul" -> MulF(x, y)
      [] fn = "div" -> DivF(x, y)

\* trait DefoAble, dispatched on the implementing type.
DefoAble_raw(x) == IF IsTemperature(x) THEN Temperature_raw(x) ELSE SpatialUnit_raw(x)
DefoAble_set(x, value) ==
    IF IsTemperature(x) THEN Temperature_set(x, value) ELSE SpatialUnit_set(x, value)
DefoAble_cnv_into(self, other) ==
    IF IsTemperature(self) THEN Temperature_cnv_into(self, other)
    ELSE SpatialUnit_cnv_into(self, other)

\* defo_calc_m_t with the result built on a copy of rhs instead of self.
defo_calc_m_t_on_rhs(fn, self, rhs) ==
    DefoAble_set(rhs, ApplyFn(fn, DefoAble_raw(DefoAble_cnv_into(self, rhs)),
                              DefoAble_raw(rhs)))

\* defo!(@calc_m_t): metric $fn metric.
defo_calc_m_t(fn, self, rhs) ==
    DefoAble_set(self, ApplyFn(fn, DefoAble_raw(self),
                               DefoAble_raw(DefoAble_cnv_into(rhs, self))))

\* defo!(@calc_t_actual): metric $fn primitive.
defo_calc_t_actual(fn, self, rhs) ==
    DefoAble_set(self, ApplyFn(fn, DefoAble_raw(self), rhs))

\* defo!(@impl_it): PartialEq<$typ> for $metric and PartialEq<$metric> for $typ.
defo_eq_prim(self, other) == total_cmp(DefoAble_raw(self), other) = "Equal"
prim_eq_defo(self, other) == total_cmp(self, DefoAble_raw(other)) = "Equal"

\* defo!(@impl_it): PartialOrd<$typ> for $metric.
defo_partial_cmp_prim(self, other) == total_cmp(DefoAble_raw(self), other)

\* prim_partial_cmp_defo with the operands of total_cmp exchanged.
prim_partial_cmp_defo_unmirrored(self, other) == total_cmp(DefoAble_raw(other), self)

\* defo!(@impl_it): PartialOrd<$metric> for $typ.
prim_partial_cmp_defo(self, other) == total_cmp(self, DefoAble_raw(other))

\* Integer types defo! generates conversions for, the two narrowest widths.
PrimTypes == {"u8", "i8", "u16", "i16"}
T_MAX(t) ==
    CASE t = "u8" -> 2^8 - 1
      [] t = "i8" -> 2^7 - 1
      [] t = "u16" -> 2^16 - 1
      [] t = "i16" -> 2^15 - 1
T_MIN(t) ==
    CASE t = "u8" -> 0 * 2^8
      [] t = "i8" -> -(2^7)
      [] t = "u16" -> 0 * 2^16
      [] t = "i16" -> -(2^15)

\* The integer part of a number, as an integer; the number is within the
\* range of the integer types above.
TruncF(x) ==
    IF x.exp >= 0 THEN x.mant * 10^x.exp
    ELSE IF -x.exp > 6 THEN 0
    ELSE SgnI(x.mant) * (AbsI(x.mant) \div 10^(-x.exp))

\* `v as $typ` from MetricsInternalType to an integer type: NaN is 0, a value
\* beyond the range of the type is its nearest bound, the fraction is dropped.
as_cast(v, t) ==
    IF IsNaN(v) THEN 0
    ELSE IF total_cmp(v, FromInt(T_MAX(t))) = "Greater" THEN T_MAX(t)
    ELSE IF total_cmp(v, FromInt(T_MIN(t))) = "Less" THEN T_MIN(t)
    ELSE TruncF(v)

\* defo!(@impl_it): From<&$metric> for $typ; `warned` is the log::warn! call.
defo_from(value, t) ==
    LET v == DefoAble_raw(value)
    IN [warned |-> gt(v, FromInt(T_MAX(t))), value |-> as_cast(v, t)]

\* defo_calc_t_mul that stores the primitive without multiplying.
defo_calc_t_mul_no_product(self, rhs) ==
    DefoAble_set(rhs, self)

\* defo!(@calc_t Mul): primitive * metric.
defo_calc_t_mul(self, rhs) ==
    DefoAble_set(rhs, MulF(self, DefoAble_raw(rhs)))

\* define_prim_ops_for_mass: Mass $fn primitive.
Mass_prim_op(fn, self, rhs) == Mass_set(self, ApplyFn(fn, Mass_raw(self), rhs))

\* define_prim_ops_for_mass: primitive * Mass is `rhs * self`.
prim_mul_Mass(self, rhs) == Mass_prim_op("mul", rhs, self)

\* define_ops_for_mass: Mass $fn Mass is `(*self).$fn(rhs.raw())`.
Mass_op(fn, self, rhs) == Mass_prim_op(fn, self, Mass_raw(rhs))

(***************************************************************************)
(* The operations of the library, by family.                               *)
(***************************************************************************)
\* x converted into the variant `tag`.
convert_to(x, tag) ==
    IF IsMass(x) THEN Mass_as(x, tag)
    ELSE IF IsSpatial(x) THEN SpatialUnit_cnv_into(x, Q(tag, Zero))
    ELSE Temperature_cnv_into(x, Q(tag, IF tag \in Sentinels THEN NoMag ELSE Zero))

\* self $fn rhs, both quantities of one family.
qty_op(fn, self, rhs) ==
    IF IsMass(self) THEN Mass_op(fn, self, rhs) ELSE defo_calc_m_t(fn, self, rhs)

\* self $fn rhs, a quantity by a primitive.
qty_op_prim(fn, self, rhs) ==
    IF IsMass(self) THEN Mass_prim_op(fn, self, rhs)
    ELSE defo_calc_t_actual(fn, self, rhs)

\* self * rhs, a quantity by a primitive.
qty_mul_prim(self, rhs) ==
    IF IsMass(self) THEN Mass_prim_op("mul", self, rhs)
    ELSE defo_calc_t_actual("mul", self, rhs)

\* self * rhs, a primitive by a quantity.
prim_mul_qty(self, rhs) ==
    IF IsMass(rhs) THEN prim_mul_Mass(self, rhs) ELSE defo_calc_t_mul(self, rhs)

partial_cmp(self, other) ==
    IF IsMass(self) THEN Mass_partial_cmp(self, other)
    ELSE IF IsSpatial(self) THEN SpatialUnit_partial_cmp(self, other)
    ELSE Temperature_partial_cmp(self, other)

eq(self, other) ==
    IF IsMass(self) THEN Mass_eq(self, other)
    ELSE IF IsSpatial(self) THEN SpatialUnit_eq(self, other)
    ELSE Temperature_eq(self, other)

\* Mass and SpatialUnit do not define ne: it is the provided !eq.
ne(self, other) ==
    IF IsTemperature(self) THEN Temperature_ne(self, other)
    ELSE ~eq(self, other)

\* unify of Mass and of SpatialUnit.
unify(self, other) ==
    IF IsMass(self) THEN Mass_unify(self, other) ELSE SpatialUnit_unify(self, other)

raw(x) ==
    IF IsMass(x) THEN Mass_raw(x)
    ELSE IF IsSpatial(x) THEN SpatialUnit_raw(x)
    ELSE Temperature_raw(x)

(***************************************************************************)
(* Inputs.                                                                 *)
(***************************************************************************)
MaxMag == 2
MaxPath == 2

\* The magnitudes -1 .. MaxMag and 1.5.
BaseMags == {FromInt(i) : i \in -1 .. MaxMag} \cup {Lit(15, -1)}
MassMags == BaseMags \cup {FromInt(1000), NaN}
SpatialMags == BaseMags \cup {NaN}
\* With the sentinels' constants, the test's 50 and 100, and a magnitude
\* below absolute zero in either unit.
TemperatureMags ==
    BaseMags \cup {K_WDWARF.v, K_NEUTRON.v, FromInt(50), FromInt(100), FromInt(-300),
                   K_C_DELTA, Lit(37315, -2), Lit(1, -6)}
\* The raw numbers an operator is given, widened to MetricsInternalType.
Prims == BaseMags \cup {NaN}

MassValues == {Q(t, v) : t \in MassTags, v \in MassMags}
SpatialValues == {Q(t, v) : t \in SpatialTags, v \in SpatialMags}
TemperatureValues == {D, N, X} \cup {Q(t, v) : t \in {"K", "C"}, v \in TemperatureMags}
Values == MassValues \cup SpatialValues \cup TemperatureValues

\* The values of the types defo! is invoked for.
DefoValues == SpatialValues \cup TemperatureValues

\* Ends of the ranges of a galaxy, in three units.
RangeEnds == {Q("M", Zero), Q("Ly", FromInt(1)), Q("Pc", FromInt(1))}
Ranges == {Range(a, b) : a \in RangeEnds, b \in RangeEnds}

\* The galaxy and the points of the test gr_range_works; the points next to
\* 15 ly are the nearest ones the magnitudes of the model can tell from 15.
gr_range_works_gr ==
    GR(Range(Q("Ly", FromInt(6)), Q("Ly", FromInt(12))),
       Range(Q("Ly", FromInt(15)), Q("Ly", FromInt(30))),
       Range(Q("Ly", FromInt(40)), Q("Ly", FromInt(42))))
gr_range_works_points ==
    {Q("Ly", FromInt(7)), Q("Ly", Lit(149999, -4)), Q("Ly", Lit(150001, -4))}

Galaxies ==
    {GR(d, a, h) : d \in Ranges, a \in Ranges, h \in Ranges} \cup {gr_range_works_gr}
Points == SpatialValues \cup gr_range_works_points

\* The values of the family of x, and its variants.
Family(x) ==
    IF IsMass(x) THEN MassValues
    ELSE IF IsSpatial(x) THEN SpatialValues ELSE TemperatureValues
FamilyTags(x) ==
    IF IsMass(x) THEN MassTags
    ELSE IF IsSpatial(x) THEN SpatialTags ELSE TemperatureTags

Nil == Q("nil", NoMag)

(***************************************************************************)
(* The library has no state of its own: the state is a caller's.  A caller *)
(* constructs a value and converts it (src, cur, path), or applies a       *)
(* binary operator to two operands (lhs, rhs, out).                        *)
(***************************************************************************)
VARIABLES op, src, cur, path, lhs, rhs, out

vars == <<op, src, cur, path, lhs, rhs, out>>

Init ==
    /\ op = "idle"
    /\ src = Nil /\ cur = Nil /\ path = <<>>
    /\ lhs = Nil /\ rhs = Nil /\ out = Nil

\* A value is constructed.
Construct ==
    /\ op = "idle"
    /\ \E x \in Values : src' = x /\ cur' = x
    /\ op' = "value"
    /\ path' = <<>>
    /\ UNCHANGED <<lhs, rhs, out>>

\* The value is converted into another variant of its family.
Convert ==
    /\ op = "value"
    /\ Len(path) < MaxPath
    /\ \E t \in FamilyTags(cur) :
          /\ cur' = convert_to(cur, t)
          /\ path' = Append(path, t)
    /\ UNCHANGED <<op, src, lhs, rhs, out>>

\* a $fn b on two quantities of one family.
Arith ==
    /\ op = "idle"
    /\ \E fn \in Fns, a \in Values : \E b \in Family(a) :
          /\ lhs' = a /\ rhs' = b
          /\ out' = qty_op(fn, a, b)
          /\ op' = fn
    /\ UNCHANGED <<src, cur, path>>

\* q * n.
MulPrim ==
    /\ op = "idle"
    /\ \E q \in Values, n \in Prims :
          /\ lhs' = q /\ rhs' = n
          /\ out' = qty_mul_prim(q, n)
    /\ op' = "q*n"
    /\ UNCHANGED <<src, cur, path>>

\* The operator of q $fn n, as the caller writes it.
PrimOp(fn) ==
    CASE fn = "add" -> "q+n"
      [] fn = "sub" -> "q-n"
      [] fn = "mul" -> "q*n"
      [] fn = "div" -> "q/n"

\* q $fn n on a quantity and a primitive.
ArithPrim ==
    /\ op = "idle"
    /\ \E fn \in Fns, q \in Values, n \in Prims :
          /\ lhs' = q /\ rhs' = n
          /\ out' = qty_op_prim(fn, q, n)
          /\ op' = PrimOp(fn)
    /\ UNCHANGED <<src, cur, path>>

\* n * q.
PrimMul ==
    /\ op = "idle"
    /\ \E n \in Prims, q \in Values :
          /\ lhs' = n /\ rhs' = q
          /\ out' = prim_mul_qty(n, q)
    /\ op' = "n*q"
    /\ UNCHANGED <<src, cur, path>>

\* a.partial_cmp(&b) on two quantities of one family.
Compare ==
    /\ op = "idle"
    /\ \E a \in Values : \E b \in Family(a) :
          /\ lhs' = a /\ rhs' = b
          /\ out' = partial_cmp(a, b)
    /\ op' = "cmp"
    /\ UNCHANGED <<src, cur, path>>

\* a == b on two quantities of one family.
Equals ==
    /\ op = "idle"
    /\ \E a \in Values : \E b \in Family(a) :
          /\ lhs' = a /\ rhs' = b
          /\ out' = eq(a, b)
    /\ op' = "eq"
    /\ UNCHANGED <<src, cur, path>>

\* a != b on two quantities of one family.
NotEquals ==
    /\ op = "idle"
    /\ \E a \in Values : \E b \in Family(a) :
          /\ lhs' = a /\ rhs' = b
          /\ out' = ne(a, b)
    /\ op' = "ne"
    /\ UNCHANGED <<src, cur, path>>

\* q == n on a quantity and a primitive.
EqualsPrim ==
    /\ op = "idle"
    /\ \E q \in DefoValues, n \in Prims :
          /\ lhs' = q /\ rhs' = n
          /\ out' = defo_eq_prim(q, n)
    /\ op' = "q==n"
    /\ UNCHANGED <<src, cur, path>>

\* n == q on a primitive and a quantity.
PrimEquals ==
    /\ op = "idle"
    /\ \E n \in Prims, q \in DefoValues :
          /\ lhs' = n /\ rhs' = q
          /\ out' = prim_eq_defo(n, q)
    /\ op' = "n==q"
    /\ UNCHANGED <<src, cur, path>>

\* q.partial_cmp(&n) on a quantity and a primitive.
ComparePrim ==
    /\ op = "idle"
    /\ \E q \in DefoValues, n \in Prims :
          /\ lhs' = q /\ rhs' = n
          /\ out' = defo_partial_cmp_prim(q, n)
    /\ op' = "q?n"
    /\ UNCHANGED <<src, cur, path>>

\* n.partial_cmp(&q) on a primitive and a quantity.
PrimCompare ==
    /\ op = "idle"
    /\ \E n \in Prims, q \in DefoValues :
          /\ lhs' = n /\ rhs' = q
          /\ out' = prim_partial_cmp_defo(n, q)
    /\ op' = "n?q"
    /\ UNCHANGED <<src, cur, path>>

\* a.unify(&b) on two Mass or two SpatialUnit values.
Unify ==
    /\ op = "idle"
    /\ \E a \in MassValues \cup SpatialValues : \E b \in Family(a) :
          /\ lhs' = a /\ rhs' = b
          /\ out' = unify(a, b)
    /\ op' = "unify"
    /\ UNCHANGED <<src, cur, path>>

\* g.contains(&s) on a galaxy and a point.
Contains ==
    /\ op = "idle"
    /\ \E g \in Galaxies, s \in Points :
          /\ lhs' = g /\ rhs' = s
          /\ out' = Megastructure_contains(g, s)
    /\ op' = "contains"
    /\ UNCHANGED <<src, cur, path>>

\* $typ::from(&q) on a quantity.
Into ==
    /\ op = "idle"
    /\ \E q \in DefoValues, t \in PrimTypes :
          /\ lhs' = q /\ rhs' = [typ |-> t]
          /\ out' = defo_from(q, t)
    /\ op' = "into"
    /\ UNCHANGED <<src, cur, path>>

\* The caller drops its values.
Reset ==
    /\ op # "idle"
    /\ op' = "idle"
    /\ src' = Nil /\ cur' = Nil /\ path' = <<>>
    /\ lhs' = Nil /\ rhs' = Nil /\ out' = Nil

Next ==
    \/ Construct \/ Convert \/ Arith \/ MulPrim \/ ArithPrim \/ PrimMul \/ Compare
    \/ Equals \/ NotEquals
    \/ EqualsPrim \/ PrimEquals \/ ComparePrim \/ PrimCompare
    \/ Unify \/ Contains \/ Into
    \/ Reset

Spec == Init /\ [][Next]_vars

(***************************************************************************)
(* Properties.                                                             *)
(***************************************************************************)
\* Rounding tolerance: a relative difference of one part in 10^4.
Tolerance == Lit(1, -4)

\* x and y are equal up to rounding.
ApproxF(x, y) ==
    IF IsNum(x) /\ IsNum(y)
    THEN total_cmp(AbsF(SubF(x, y)), MulF(Tolerance, MaxF(AbsF(x), AbsF(y)))) # "Greater"
    ELSE x = y

\* Two quantities of the same variant whose magnitudes are equal up to rounding.
ApproxQ(p, q) == p.tag = q.tag /\ ApproxF(p.v, q.v)

\* x expressed in the unit u: itself when it already is.
InUnit(x, u) == IF x.tag = u THEN x ELSE convert_to(x, u)

\* The Kelvin constant a fixed-constant sentinel stands for.
Alias(s) == IF s.tag = "N" THEN K_NEUTRON ELSE K_WDWARF

\* The higher-ranked of the unit tags of two Mass or SpatialUnit values.
Winner(a, b) ==
    IF IsMass(a) THEN (IF Mass_rank(a) >= Mass_rank(b) THEN a.tag ELSE b.tag)
    ELSE (IF SpatialUnit_rank(a) >= SpatialUnit_rank(b) THEN a.tag ELSE b.tag)

Positive(x) == IsNum(x.v) /\ x.v.mant > 0

\* C1: a magnitude-carrying value converted to another magnitude-carrying
\* unit of its family and back equals the original, up to rounding.
C1_RoundTrip ==
    (/\ op = "value"
     /\ Len(path) = 2
     /\ path[2] = src.tag
     /\ src.tag \notin Sentinels
     /\ path[1] \notin Sentinels)
    => ApproxQ(cur, src)

C3_ArithInCommonUnit ==
    (op \in Fns /\ lhs.tag \notin Sentinels /\ rhs.tag \notin Sentinels)
    => \E u \in {lhs.tag, rhs.tag} :
          ApproxQ(InUnit(out, u),
                  Q(u, ApplyFn(op, raw(InUnit(lhs, u)), raw(InUnit(rhs, u)))))

\* C4 as stated: a op b on Mass or SpatialUnit values is tagged with the
\* higher-ranked of the two unit tags.
C4_ResultHasWinningUnit ==
    (op \in Fns /\ ~IsTemperature(lhs)) => out.tag = Winner(lhs, rhs)

\* C4 as amended: a op b is tagged with the unit of the left operand a.
C4_ResultHasLeftUnit ==
    op \in Fns => out.tag = lhs.tag

\* Meters + LightYears has been computed and is Meters-tagged.
C4_Witness ==
    /\ op = "add"
    /\ lhs.tag = "M"
    /\ rhs.tag = "Ly"
    /\ out.tag = "M"

\* C5: on Mass and SpatialUnit values of positive magnitude, exactly one of
\* a < b, a == b, a > b holds, and a < b with b < z implies a < z.
C5_TotalOrder ==
    (op = "cmp" /\ ~IsTemperature(lhs) /\ Positive(lhs) /\ Positive(rhs))
    => /\ out \in {"Less", "Equal", "Greater"}
       /\ eq(lhs, rhs) <=> out = "Equal"
       /\ \A z \in Family(lhs) :
             (Positive(z) /\ out = "Less" /\ partial_cmp(rhs, z) = "Less")
             => partial_cmp(lhs, z) = "Less"

\* C6: NeutronStar and WhiteDwarf compare against a Kelvin or Celsius value
\* as their Kelvin constant does, in both operand positions.
C6_SentinelComparesAsAlias ==
    op = "cmp"
    => /\ (lhs.tag \in {"N", "D"} /\ rhs.tag \in {"K", "C"})
          => out = Temperature_partial_cmp(Alias(lhs), rhs)
       /\ (rhs.tag \in {"N", "D"} /\ lhs.tag \in {"K", "C"})
          => out = Temperature_partial_cmp(lhs, Alias(rhs))

\* C7: WhiteDwarf or NeutronStar converted to Kelvin or Celsius equals its
\* Kelvin constant converted to the same target.
C7_SentinelConvertsAsAlias ==
    (/\ op = "value"
     /\ Len(path) = 1
     /\ src.tag \in {"N", "D"}
     /\ path[1] \in {"K", "C"})
    => cur = convert_to(Alias(src), path[1])

\* C8: a conversion whose source or target is magnitude-carrying returns a
\* value tagged with the target's variant.
C8_ResultHasTargetTag ==
    (/\ op = "value"
     /\ Len(path) = 1
     /\ (path[1] \notin Sentinels \/ src.tag \notin Sentinels))
    => cur.tag = path[1]

\* C9: a Mass (SpatialUnit) value converted to Kilograms (Meters) and then
\* to a unit v equals the value converted to v directly, up to rounding.
C9_ThroughCenterUnit ==
    (/\ op = "value"
     /\ Len(path) = 2
     /\ \/ IsMass(src) /\ path[1] = "Kg"
        \/ IsSpatial(src) /\ path[1] = "M")
    => ApproxQ(cur, convert_to(src, path[2]))

\* C10 as stated: n * q == q * n is true for every quantity q and number n.
C10_MulCommutes ==
    op = "n*q" => eq(out, qty_mul_prim(rhs, lhs))

\* C10 as amended: n * q == q * n is true for every quantity q other than
\* BlackHole and every number n.
C10_MulCommutesExceptBlackHole ==
    (op = "n*q" /\ rhs.tag # "X") => eq(out, qty_mul_prim(rhs, lhs))

\* 2 * 1.5 Kelvin has been computed and is 3 Kelvin.
C10_Witness ==
    /\ op = "n*q"
    /\ lhs = FromInt(2)
    /\ rhs = Q("K", Lit(15, -1))
    /\ out = Q("K", FromInt(3))

\* C11: when either operand of a Temperature comparison is BlackHole, in
\* either operand order and also when both are, eq returns false, ne returns
\* false and partial_cmp returns None.
C11_BlackHoleUnrelated ==
    (op \in {"eq", "ne", "cmp"} /\ (lhs = X \/ rhs = X)) =>
        /\ op = "eq" => out = FALSE
        /\ op = "ne" => out = FALSE
        /\ op = "cmp" => out = "None"

\* BlackHole != BlackHole has been evaluated, and is false.
C11_Witness == op = "ne" /\ lhs = X /\ rhs = X /\ out = FALSE

\* C12: BlackHole compared with a raw number, NaN included, in either operand
\* order is neither equal to it, nor less, nor greater than it.
C12_BlackHoleVsNumber ==
    /\ (op = "q==n" /\ lhs = X) => out = FALSE
    /\ (op = "n==q" /\ rhs = X) => out = FALSE
    /\ (op = "q?n" /\ lhs = X) => out \notin {"Less", "Greater"}
    /\ (op = "n?q" /\ rhs = X) => out \notin {"Less", "Greater"}

\* Kelvin, Celsius and the units of SpatialUnit carry a magnitude.
CarriesMagnitude(q) == q.tag \notin Sentinels

MassOrder == <<"G", "Kg", "ME", "MJ", "MO">>
SpatialOrder == <<"M", "RE", "RO", "Au", "Ly", "Pc">>
RankIn(order, tag) == CHOOSE i \in 1 .. Len(order) : order[i] = tag
Higher(a, b) ==
    LET order == IF IsMass(a) THEN MassOrder ELSE SpatialOrder
    IN IF RankIn(order, a.tag) >= RankIn(order, b.tag) THEN a.tag ELSE b.tag

\* C14: unify(a, b) returns two values tagged with the higher-ranked of the
\* units of a and b; an operand already in that unit is returned unchanged,
\* so operands that share a unit are both returned unchanged.
C14_UnifyToHigherRank ==
    op = "unify" =>
        /\ out[1].tag = Higher(lhs, rhs)
        /\ out[2].tag = Higher(lhs, rhs)
        /\ lhs.tag = Higher(lhs, rhs) => out[1] = lhs
        /\ rhs.tag = Higher(lhs, rhs) => out[2] = rhs
        /\ lhs.tag = rhs.tag => out = <<lhs, rhs>>

\* 1 Kilogram and 1 SolarMass have been unified: both results are SolarMasses
\* and the second is the operand itself.
C14_Witness ==
    /\ op = "unify"
    /\ lhs = Q("Kg", FromInt(1))
    /\ rhs = Q("MO", FromInt(1))
    /\ out[1].tag = "MO"
    /\ out[2] = rhs

\* The magnitudes of a and b after unification to the higher-ranked unit.
UnifiedMagnitudes(a, b) ==
    <<InUnit(a, Higher(a, b)).v, InUnit(b, Higher(a, b)).v>>

\* C15: on Mass and SpatialUnit values, a == b holds exactly when the unified
\* magnitudes are equal, a != b exactly when they are not, and the ordering
\* of a and b is the ordering of the unified magnitudes; 1 Kilogram is less
\* than 1.5 Kilogram and equal to 1000 Grams, and every value equals itself.
C15_ComparesUnifiedMagnitudes ==
    LET m == UnifiedMagnitudes(lhs, rhs)
    IN (op \in {"eq", "ne", "cmp"} /\ ~IsTemperature(lhs)) =>
        /\ op = "eq" => (out <=> total_cmp(m[1], m[2]) = "Equal")
        /\ op = "ne" => (out <=> total_cmp(m[1], m[2]) # "Equal")
        /\ op = "cmp" => out = total_cmp(m[1], m[2])
        /\ (op = "eq" /\ lhs = rhs) => out = TRUE
        /\ (op = "eq" /\ lhs = Q("Kg", FromInt(1)) /\ rhs = Q("G", FromInt(1000)))
                => out = TRUE
        /\ (op = "cmp" /\ lhs = Q("Kg", FromInt(1)) /\ rhs = Q("Kg", Lit(15, -1)))
                => out = "Less"

\* 1 Kilogram == 1000 Grams has been evaluated, and is true.
C15_Witness ==
    /\ op = "eq"
    /\ lhs = Q("Kg", FromInt(1))
    /\ rhs = Q("G", FromInt(1000))
    /\ out = TRUE

\* C16: NeutronStar > WhiteDwarf and WhiteDwarf < NeutronStar; NeutronStar
\* equals Kelvin(1000000) and WhiteDwarf equals Kelvin(100000) in both
\* operand orders; each of the two equals itself, and they differ.
C16_SentinelAliases ==
    /\ (op = "cmp" /\ lhs = N /\ rhs = D) => out = "Greater"
    /\ (op = "cmp" /\ lhs = D /\ rhs = N) => out = "Less"
    /\ (op = "eq" /\ <<lhs, rhs>> \in {<<N, K_NEUTRON>>, <<K_NEUTRON, N>>}) => out = TRUE
    /\ (op = "eq" /\ <<lhs, rhs>> \in {<<D, K_WDWARF>>, <<K_WDWARF, D>>}) => out = TRUE
    /\ (op = "eq" /\ <<lhs, rhs>> \in {<<N, N>>, <<D, D>>}) => out = TRUE
    /\ (op = "eq" /\ <<lhs, rhs>> \in {<<N, D>>, <<D, N>>}) => out = FALSE
    /\ (op = "ne" /\ <<lhs, rhs>> \in {<<N, D>>, <<D, N>>}) => out = TRUE
    /\ (op = "ne" /\ <<lhs, rhs>> \in {<<N, N>>, <<D, D>>}) => out = FALSE

\* WhiteDwarf == Kelvin(100000) has been evaluated, and is true.
C16_Witness == op = "eq" /\ lhs = D /\ rhs = K_WDWARF /\ out = TRUE

\* start <= point <= end, on the magnitudes of the three after unification.
Within(r, point) ==
    LET lo == UnifiedMagnitudes(r.start, point)
        hi == UnifiedMagnitudes(point, r.end)
    IN /\ total_cmp(lo[1], lo[2]) \in {"Less", "Equal"}
       /\ total_cmp(hi[1], hi[2]) \in {"Less", "Equal"}

\* C17: contains(point) is the first of VisibleDisk, Arms, Halo whose range
\* has start <= point <= end, whatever the units of the three, and None
\* exactly when no range has; in the galaxy of disk [6, 12] ly, arms
\* [15, 30] ly and halo [40, 42] ly, 7 ly is in the disk, a point just below
\* 15 ly is not in the arms and a point just above 15 ly is.
C17_FirstRegionInPrecedence ==
    op = "contains" =>
        LET d == Within(lhs.visible_disk, rhs)
            a == Within(lhs.arms, rhs)
            h == Within(lhs.halo, rhs)
        IN /\ out = "VisibleDisk" <=> d
           /\ out = "Arms" <=> (~d /\ a)
           /\ out = "Halo" <=> (~d /\ ~a /\ h)
           /\ out = "None" <=> (~d /\ ~a /\ ~h)
           /\ (lhs = gr_range_works_gr /\ rhs = Q("Ly", FromInt(7)))
                => out = "VisibleDisk"
           /\ (lhs = gr_range_works_gr /\ rhs = Q("Ly", Lit(149999, -4)))
                => out # "Arms"
           /\ (lhs = gr_range_works_gr /\ rhs = Q("Ly", Lit(150001, -4)))
                => out = "Arms"

\* A point of 1 ly, the inclusive end of a disk given in meters and light
\* years and inside arms given in meters and parsecs, is in the disk.
C17_Witness ==
    /\ op = "contains"
    /\ lhs.visible_disk = Range(Q("M", Zero), Q("Ly", FromInt(1)))
    /\ lhs.arms = Range(Q("M", Zero), Q("Pc", FromInt(1)))
    /\ rhs = Q("Ly", FromInt(1))
    /\ out = "VisibleDisk"

\* C18: q op n, for op one of +, -, *, /, has the tag of q; its magnitude is
\* the magnitude of q op n when q carries one, and it is q itself when q is
\* WhiteDwarf, NeutronStar or BlackHole.  Half of 1 LightYear is 0.5 LightYear.
C18_PrimArithKeepsTag ==
    (\E fn \in Fns : op = PrimOp(fn)) =>
        LET fn == CHOOSE f \in Fns : op = PrimOp(f)
        IN /\ out.tag = lhs.tag
           /\ CarriesMagnitude(lhs) => out.v = ApplyFn(fn, lhs.v, rhs)
           /\ ~CarriesMagnitude(lhs) => out = lhs
           /\ (fn = "div" /\ lhs = Q("Ly", FromInt(1)) /\ rhs = FromInt(2))
                => out = Q("Ly", Lit(5, -1))

\* NeutronStar - 2 has been evaluated, and is NeutronStar.
C18_Witness == op = "q-n" /\ lhs = N /\ rhs = FromInt(2) /\ out = N

\* C19: comparing two Mass or two SpatialUnit values of any units and
\* magnitudes never panics: unify returns two values of one variant, so
\* partial_cmp does not reach its unreachable!() arm and returns Some
\* ordering.
C19_CompareNeverPanics ==
    /\ op = "unify" => out[1].tag = out[2].tag
    /\ (op = "cmp" /\ ~IsTemperature(lhs)) => out \in {"Less", "Equal", "Greater"}

\* Meters of magnitude NaN have been compared with a Parsec value, the lower
\* rank on the left, and an ordering came back.
C19_Witness ==
    /\ op = "cmp"
    /\ lhs = Q("M", NaN)
    /\ rhs.tag = "Pc"
    /\ out = "Greater"

\* C20: T::from(&q) returns the native cast of the magnitude of q to T, and
\* warns exactly when the magnitude is above T::MAX or below T::MIN.
C20_NarrowingWarnsOutOfRange ==
    op = "into" =>
        LET v == raw(lhs)
            T == rhs.typ
        IN /\ out.value = as_cast(v, T)
           /\ out.warned <=> (gt(v, FromInt(T_MAX(T))) \/ lt(v, FromInt(T_MIN(T))))

\* C21: for every Temperature other than BlackHole, k() returns a Kelvin
\* value of magnitude at least 0 and c() returns a value not below absolute
\* zero (a Celsius magnitude of at least -273.15, a Kelvin magnitude of at
\* least 0); ABS_ZERO, Kelvin 0, converts to Celsius -273.15.
C21_ClampAtAbsoluteZero ==
    (op = "value" /\ IsTemperature(src) /\ src # X /\ Len(path) = 1) =>
        /\ path[1] = "K" =>
                (cur.tag = "K" /\ total_cmp(cur.v, Zero) # "Less")
        /\ path[1] = "C" =>
                /\ cur.tag \in {"C", "K"}
                /\ cur.tag = "C" => total_cmp(cur.v, NegF(K_C_DELTA)) # "Less"
                /\ cur.tag = "K" => total_cmp(cur.v, Zero) # "Less"
        /\ (path[1] = "C" /\ src = ABS_ZERO) => cur = Q("C", NegF(K_C_DELTA))

\* x + y is the sum itself, not a rounding of it: either term is recovered
\* from the sum by subtracting the other.
ExactSum(x, y) ==
    /\ SubF(AddF(x, y), x) = y
    /\ SubF(AddF(x, y), y) = x

\* The answers of k == c, k != c and the ordering of k and c, as Equals,
\* NotEquals and Compare record them, on the operands a and b.
Answer(a, b) ==
    CASE op = "eq" -> eq(a, b)
      [] op = "ne" -> ne(a, b)
      [] op = "cmp" -> partial_cmp(a, b)

====
